---- MODULE Spec2Model ----
(***************************************************************************)
(* Progress cursor (js/sliding-window.js), state codec (StorageManager)    *)
(* and rating handlers (js/app.js) of the movie challenge.                 *)
(*                                                                         *)
(* Specifications:                                                         *)
(*   Spec         the cursor called through its public API, init being     *)
(*                called at application start and again on every import;   *)
(*   SpecWritten  the same, the imported codes being written by hand;      *)
(*   SpecShrunk   the cursor started on a Catalog shorter than the one its *)
(*                stored State was written on;                             *)
(*   SpecSwipe    the cursor called by the application's rating handlers,  *)
(*                which defer each rating by a timer;                      *)
(*   SpecFresh    the cursor started without saved progress;               *)
(*   SpecCodec    exportCompressed or exportLegacy followed by             *)
(*                importCompressed;                                        *)
(*   SpecDecode   importCompressed given any text;                         *)
(*   SpecStorage  StorageManager's save, saveImmediate and reset called    *)
(*                through its public API, with the debounce callback;      *)
(*   SpecStorageLive  the same, the event loop running pending callbacks;  *)
(*   SpecApp      one session of the application on a small Catalog: the   *)
(*                handlers, the cursor and the store together;             *)
(*   SpecStart    the start of the application from the store or a link;   *)
(*   SpecReset    the application with its reset, the State whose write    *)
(*                was pending at a reset being kept;                       *)
(*   SpecGame     the rating handlers with GamificationManager's count.    *)
(*                                                                         *)
(* Positions are 0-based as in the JavaScript; TLA+ sequences are 1-based, *)
(* so the item at position p is items[p + 1].                              *)
(***************************************************************************)
EXTENDS Integers, Sequences, FiniteSets, TLC

(* ------------------------------ bounds --------------------------------- *)

\* Largest Catalog handed to init.
MaxN == 3

\* Most setTimeout callbacks of the swipe handlers pending at once.
MaxTimers == 2

\* Most items rated by the sessions whose States are given to save.
MaxSaved == 2

\* Largest Catalog of the application run with its store.
MaxAppN == 2

\* Largest count GamificationManager is followed to.
MaxTotalSeen == 4

\* Largest config.data.totalCount of the codec (5000 in the shipped
\* configuration), scaled.
MaxTotalCount == 5

\* config.storage.maxHistorySize (100 in the shipped configuration), scaled.
HISTORY_MAX_SIZE == 2

\* Entries the quota retry of save keeps of the history (50 in the code, half
\* of the shipped maxHistorySize), scaled.
RETRY_HISTORY_SIZE == 1

\* config.ui.windowSize (5 in the shipped configuration), scaled.
WINDOW_SIZE == 2

\* config.ui.preloadAhead (3 in the shipped configuration), scaled.
PRELOAD_AHEAD == 1

(* ------------------------------ state ---------------------------------- *)

VARIABLES
    items,          \* SlidingWindow: full item list, a sequence of ids
    currentIndex,   \* SlidingWindow: raw pointer
    seenSet,        \* SlidingWindow: ids marked seen
    notSeenSet,     \* SlidingWindow: ids marked not seen
    history,        \* SlidingWindow: undo history, most recent last
    onUpdate,       \* SlidingWindow: "null" before init, "set" after
    op,             \* the last call made on the cursor
    ret,            \* what that call returned: "true", "false", "undefined"
    nUpdate,        \* update notifications delivered by that call
    nComplete,      \* completion notifications delivered by that call
    notified,       \* the notifications of that call, in order, with the State each carried
    hint,           \* savedState.currentIndex of the last init, -1 after other calls
    pre,            \* state before the rating, kept while only its undo follows
    run,            \* ratings made since the empty State, -1 once anything else ran
    imported,       \* the State of the last import, while the cursor is as init left it
    timers,         \* app.js: pending setTimeout(..., 300) callbacks, oldest first,
                    \* each with the card that was on top when it was set
    search,         \* window.location.search: the code of its p parameter, or NoParam
    totalSeen,      \* GamificationManager: the count of seen ratings it keeps,
                    \* followed in SpecGame; the other specifications leave
                    \* the gamification out
    codecIn,        \* StorageManager: what exportCompressed is given
    code,           \* StorageManager: the export code produced
    decoded,        \* StorageManager: what importCompressed returned
    stored,         \* localStorage: the State under STORAGE_KEY, or Absent
    pendingState,   \* StorageManager: the State of the last save, or NoPending
    saveTimeout,    \* StorageManager: "null", or the handle of a "pending" or a "fired" timer
    saveTimers,     \* event loop: debounce callbacks of save waiting to run
    arg,            \* the State last given to save or saveImmediate
    replaced,       \* the pending State whose write the last save call cancelled
    written         \* outcomes of the localStorage.setItem calls of the last step

cursorVars == <<items, currentIndex, seenSet, notSeenSet, history, onUpdate>>
callVars == <<op, ret, nUpdate, nComplete, notified>>
ghostVars == <<hint, pre, run, imported>>
codecVars == <<codecIn, code, decoded>>
storeVars == <<stored, pendingState, saveTimeout, saveTimers>>
storeGhostVars == <<arg, replaced, written>>
storageVars == <<storeVars, storeGhostVars>>
vars == <<cursorVars, callVars, ghostVars, timers, search, totalSeen, codecVars, storageVars>>

(* ----------------------------- Catalog --------------------------------- *)

\* The id of the item at 1-based place p; ids are unique and differ from
\* positions.
ItemId(p) == 10 + p

Catalog(n) == [p \in 1..n |-> ItemId(p)]

CatalogIds(n) == {ItemId(p) : p \in 1..n}

Null == [id |-> -1, index |-> -1]

NoSnap == [currentIndex |-> -1, seen |-> {}, notSeen |-> {}, current |-> Null]

NoInput == [none |-> TRUE]

NoCode == [none |-> TRUE]

NotDecoded == [none |-> TRUE]

Absent == [none |-> TRUE]

NoPending == [none |-> TRUE]

NoArg == [none |-> TRUE]

NoImport == [none |-> TRUE]

NoParam == [none |-> TRUE]

(* ------------------------- SlidingWindow helpers ----------------------- *)

\* Mutant: only the seen set is consulted.
isRatedSeenOnly(id, seen, notSeen) == id \in seen

isRated(id, seen, notSeen) == id \in seen \/ id \in notSeen

\* Mutant: an `if` instead of the `while`, so one rated item at most is skipped.
SkipRatedOnce(idx, its, seen, notSeen) ==
    IF idx < Len(its) /\ isRated(its[idx + 1], seen, notSeen)
    THEN idx + 1
    ELSE idx

\* The loop `while (currentIndex < items.length && isRated(...)) currentIndex++`
\* of init and advanceToNext.
RECURSIVE SkipRated(_, _, _, _)
SkipRated(idx, its, seen, notSeen) ==
    IF idx < Len(its) /\ isRated(its[idx + 1], seen, notSeen)
    THEN SkipRated(idx + 1, its, seen, notSeen)
    ELSE idx

\* Mutant: the scan stops one item short of the end of the Catalog.
RECURSIVE ScanCurrentOffByOne(_, _, _, _)
ScanCurrentOffByOne(idx, its, seen, notSeen) ==
    IF idx < Len(its) - 1
    THEN IF ~isRated(its[idx + 1], seen, notSeen)
         THEN [id |-> its[idx + 1], index |-> idx]
         ELSE ScanCurrentOffByOne(idx + 1, its, seen, notSeen)
    ELSE Null

RECURSIVE ScanCurrent(_, _, _, _)
ScanCurrent(idx, its, seen, notSeen) ==
    IF idx < Len(its)
    THEN IF ~isRated(its[idx + 1], seen, notSeen)
         THEN [id |-> its[idx + 1], index |-> idx]
         ELSE ScanCurrent(idx + 1, its, seen, notSeen)
    ELSE Null

getCurrentItem == ScanCurrent(currentIndex, items, seenSet, notSeenSet)

isComplete == getCurrentItem = Null

\* Mutant: rated items are pushed like the others.
RECURSIVE WindowFromNoSkip(_, _, _)
WindowFromNoSkip(idx, windowItems, size) ==
    IF Len(windowItems) < size /\ idx < Len(items)
    THEN WindowFromNoSkip(idx + 1,
                          Append(windowItems, [id |-> items[idx + 1], index |-> idx]),
                          size)
    ELSE windowItems

\* The loop of getWindow and getPreloadQueue from position idx on: unrated
\* items are pushed with their position until `size` of them are collected or
\* the Catalog ends.
RECURSIVE WindowFrom(_, _, _)
WindowFrom(idx, windowItems, size) ==
    IF Len(windowItems) < size /\ idx < Len(items)
    THEN WindowFrom(idx + 1,
                    IF ~isRated(items[idx + 1], seenSet, notSeenSet)
                    THEN Append(windowItems, [id |-> items[idx + 1], index |-> idx])
                    ELSE windowItems,
                    size)
    ELSE windowItems

\* Mutant: the scan starts behind the pointer.
getWindowAfterPointer == WindowFrom(currentIndex + 1, <<>>, WINDOW_SIZE)

getWindow == WindowFrom(currentIndex, <<>>, WINDOW_SIZE)

\* getPreloadQueue(): the same scan with a larger bound; the items are pushed
\* without their position.
getPreloadQueue ==
    LET queue == WindowFrom(currentIndex, <<>>, WINDOW_SIZE + PRELOAD_AHEAD)
    IN [i \in 1..Len(queue) |-> queue[i].id]

\* getProgress()
getProgress ==
    LET total == Cardinality(seenSet) + Cardinality(notSeenSet)
    IN [current |-> total,
        total |-> Len(items),
        seen |-> Cardinality(seenSet),
        notSeen |-> Cardinality(notSeenSet),
        remaining |-> Len(items) - total]

\* Mutant: the oldest entries are kept, the newest dropped.
trimHistoryKeepsOldest(h) ==
    IF Len(h) > HISTORY_MAX_SIZE
    THEN SubSeq(h, 1, HISTORY_MAX_SIZE)
    ELSE h

trimHistory(h) ==
    IF Len(h) > HISTORY_MAX_SIZE
    THEN SubSeq(h, Len(h) - HISTORY_MAX_SIZE + 1, Len(h))
    ELSE h

\* items.findIndex(m => getItemId(m) === id): first position, -1 when absent.
findIndex(its, id) ==
    IF \E p \in 1..Len(its) : its[p] = id
    THEN (CHOOSE p \in 1..Len(its) :
              its[p] = id /\ \A q \in 1..(p - 1) : its[q] # id) - 1
    ELSE -1

getState ==
    [currentIndex |-> currentIndex, seen |-> seenSet, notSeen |-> notSeenSet,
     history |-> history]

\* What the rating claims compare: getState() without the history, and the
\* current item.
Snapshot ==
    [currentIndex |-> currentIndex, seen |-> seenSet, notSeen |-> notSeenSet,
     current |-> getCurrentItem]

\* Mutant: triggerUpdate calls nothing.
triggerUpdateSilent(cb) == 0

\* triggerUpdate delivers one notification when a callback is registered.
triggerUpdate(cb) == IF cb = "set" THEN 1 ELSE 0

\* Mutant: onComplete is called before triggerUpdate.
NotificationsCompleteFirst(nU, nC, st) ==
    [i \in 1..(nU + nC) |->
        [kind |-> IF i <= nC THEN "complete" ELSE "update", state |-> st]]

\* The callbacks of one call in the order they run: triggerUpdate() first, its
\* data.state being getState(), then onComplete(getState()) in advanceToNext.
Notifications(nU, nC, st) ==
    [i \in 1..(nU + nC) |->
        [kind |-> IF i <= nU THEN "update" ELSE "complete", state |-> st]]

(* --------------------------- StorageManager codec ---------------------- *)

\* A Uint8Array is a sequence of numbers in 0..255; a base64 text is a
\* sequence of sextets in 0..63, with 64 standing for the padding character.

RECURSIVE Pow2(_)
Pow2(k) == IF k = 0 THEN 1 ELSE 2 * Pow2(k - 1)

\* a | b on non-negative integers.
RECURSIVE BitOr(_, _)
BitOr(a, b) ==
    IF a = 0 THEN b
    ELSE IF b = 0 THEN a
    ELSE (IF a % 2 = 1 \/ b % 2 = 1 THEN 1 ELSE 0) + 2 * BitOr(a \div 2, b \div 2)

\* Math.ceil((totalItems * bitsPerItem) / 8)
totalBytes(totalItems) == (totalItems * 2 + 7) \div 8

\* The 2-bit value exportCompressed writes for an item.
bitValue(id, st) ==
    IF id \in st.seen THEN 1
    ELSE IF id \in st.notSeen THEN 2
    ELSE 0

\* items.forEach of exportCompressed from the 0-based index on: items at
\* index >= totalItems are skipped, the others OR their value into the buffer.
RECURSIVE packFrom(_, _, _, _, _)
packFrom(index, bytes, its, totalItems, st) ==
    IF index >= Len(its)
    THEN bytes
    ELSE IF index >= totalItems
    THEN packFrom(index + 1, bytes, its, totalItems, st)
    ELSE LET bitPosition == index * 2
             byteIndex == bitPosition \div 8
             bitOffset == bitPosition % 8
             value == bitValue(its[index + 1], st)
             byte2 == BitOr(bytes[byteIndex + 1], value * Pow2(bitOffset)) % 256
         IN packFrom(index + 1, [bytes EXCEPT ![byteIndex + 1] = byte2],
                     its, totalItems, st)

packBits(its, totalItems, st) ==
    packFrom(0, [b \in 1..totalBytes(totalItems) |-> 0], its, totalItems, st)

\* btoa of the binary string of the bytes.
RECURSIVE btoa(_)
btoa(bytes) ==
    IF Len(bytes) = 0 THEN <<>>
    ELSE IF Len(bytes) = 1
    THEN <<bytes[1] \div 4, (bytes[1] % 4) * 16, 64, 64>>
    ELSE IF Len(bytes) = 2
    THEN <<bytes[1] \div 4, (bytes[1] % 4) * 16 + bytes[2] \div 16,
           (bytes[2] % 16) * 4, 64>>
    ELSE <<bytes[1] \div 4, (bytes[1] % 4) * 16 + bytes[2] \div 16,
           (bytes[2] % 16) * 4 + bytes[3] \div 64, bytes[3] % 64>>
         \o btoa(SubSeq(bytes, 4, Len(bytes)))

\* atob of a base64 text, as the bytes of the binary string.
RECURSIVE atob(_)
atob(text) ==
    IF Len(text) < 4 THEN <<>>
    ELSE LET a == text[1]
             b == text[2]
             c == text[3]
             d == text[4]
             rest == atob(SubSeq(text, 5, Len(text)))
         IN IF c = 64 THEN <<a * 4 + b \div 16>>
            ELSE IF d = 64 THEN <<a * 4 + b \div 16, (b % 16) * 16 + c \div 4>>
            ELSE <<a * 4 + b \div 16, (b % 16) * 16 + c \div 4, (c % 4) * 64 + d>> \o rest

\* LZString.compressToBase64(JSON.stringify(exportData)): the export code is
\* the compressed form of the envelope.
compressToBase64(json) == [fmt |-> "lz", json |-> json]

\* LZString.decompressFromBase64(code) and JSON.parse of its result: the
\* envelope compressToBase64 was given.  A plain base64 code of a JSON object
\* starts with the letter `e`, whose first two bits make the decompressor stop
\* at once with the empty text, which importCompressed treats like null; when
\* the JSON text starts with white space the decompressor yields a text whose
\* first character no JSON text starts with, JSON.parse raises and the catch
\* leaves data undefined.
decompressFromBase64(c) == IF c.fmt = "lz" THEN c.json ELSE Null

\* exportCompressed(state), items being ItemManager.getAll() and totalCount
\* config.data.totalCount.
exportCompressed(st, its, totalCount) ==
    compressToBase64([v |-> 2, i |-> st.currentIndex,
                      d |-> btoa(packBits(its, totalCount, st))])

\* Mutant: the loop runs over the bit fields of the buffer instead of the
\* items of the Catalog.
unpackIdsWholeBuffer(bytes, its, totalCount, want) ==
    {ItemId(q) : q \in {r \in 1..(4 * Len(bytes)) :
        /\ r - 1 < totalCount
        /\ (bytes[((r - 1) * 2) \div 8 + 1] \div Pow2(((r - 1) * 2) % 8)) % 4 = want}}

\* The ids decodeBitArray pushes for the 2-bit value `want`: a byte beyond the
\* buffer reads as undefined, which the shift turns into 0.
unpackIds(bytes, its, totalCount, want) ==
    {its[p] : p \in {q \in 1..Len(its) :
        /\ q - 1 < totalCount
        /\ LET bitPosition == (q - 1) * 2
               byteIndex == bitPosition \div 8
               bitOffset == bitPosition % 8
               byte == IF byteIndex + 1 <= Len(bytes) THEN bytes[byteIndex + 1] ELSE 0
           IN (byte \div Pow2(bitOffset)) % 4 = want}}

decodeBitArray(data, its, totalCount) ==
    LET bytes == atob(data.d)
    IN [currentIndex |-> IF data.i # 0 THEN data.i ELSE 0,
        seen |-> unpackIds(bytes, its, totalCount, 1),
        notSeen |-> unpackIds(bytes, its, totalCount, 2),
        history |-> <<>>]

\* Mutant: the v1 envelope leaves the pointer out.
exportLegacyNoIndex(st) ==
    [fmt |-> "b64", json |-> [v |-> 1, s |-> st.seen, n |-> st.notSeen, i |-> 0]]

\* exportLegacy(state): btoa of the JSON text of the v1 envelope.  The text
\* starts with `{"`, so the code starts with the letters `ey`.
exportLegacy(st) ==
    [fmt |-> "b64", json |-> [v |-> 1, s |-> st.seen, n |-> st.notSeen,
                              i |-> st.currentIndex]]

\* Mutant: the legacy stage is missing, only compressed codes are read.
importCompressedNoLegacy(c, its, totalCount) ==
    IF decompressFromBase64(c) # Null /\ decompressFromBase64(c).v = 2
           /\ decompressFromBase64(c).d # <<>>
    THEN decodeBitArray(decompressFromBase64(c), its, totalCount)
    ELSE Null

\* Mutant: the legacy stage never parses anything.
parseLegacyFails(c) == Null

\* JSON.parse(atob(code)) of the legacy stage: the envelope of a plain base64
\* code, also when its JSON text starts with white space; null (the catch
\* returns null) for a text that is no base64 of a JSON text, compressed
\* codes among them.
parseLegacy(c) == IF c.fmt \in {"b64", "b64ws"} THEN c.json ELSE Null

\* importCompressed(code): the v2 stage, then the legacy stage; null when
\* neither yields a State.
importCompressed(c, its, totalCount) ==
    LET data == IF decompressFromBase64(c) # Null
                THEN decompressFromBase64(c)
                ELSE parseLegacy(c)
    IN IF data = Null
       THEN Null
       ELSE IF data.v = 2 /\ data.d # <<>>
       THEN decodeBitArray(data, its, totalCount)
       ELSE IF data.v = 1
       THEN [currentIndex |-> IF data.i # 0 THEN data.i ELSE 0, seen |-> data.s, notSeen |-> data.n,
             history |-> <<>>]
       ELSE Null

(* --------------------------- saved States ------------------------------ *)

\* Sequences without repetition over a set, of length at most k.
RECURSIVE Arrangements(_, _)
Arrangements(S, k) ==
    IF k = 0 \/ S = {}
    THEN {<<>>}
    ELSE {<<>>} \cup
         UNION {{<<x>> \o t : t \in Arrangements(S \ {x}, k - 1)} : x \in S}

ActionOf(id, seen) == [id |-> id, action |-> IF id \in seen THEN "seen" ELSE "notSeen"]

\* Histories a persisted State can carry: each action names a rated id and the
\* set it is in.  The store outlives the configuration that wrote it
\* (config.storage.maxHistorySize is a per-deployment value), so a stored
\* history may be longer than the bound in force when it is loaded.
SavedHistories(seen, notSeen) ==
    {[i \in 1..Len(a) |-> ActionOf(a[i], seen)] :
        a \in Arrangements(seen \cup notSeen, HISTORY_MAX_SIZE + 1)}

\* The States StorageManager.load() hands to init at application start, for a
\* Catalog of n items: currentIndex is a hint that may point anywhere up to and
\* beyond the end of the Catalog.
LoadedStates(n) ==
    UNION {UNION {{[currentIndex |-> i, seen |-> s, notSeen |-> t, history |-> h] :
                      i \in 0..(n + 1), h \in SavedHistories(s, t)} :
                  t \in SUBSET (CatalogIds(n) \ s)} :
           s \in SUBSET CatalogIds(n)}

\* The States importCompressed hands to init: the history is always empty.
DecodedStates(n) ==
    UNION {{[currentIndex |-> i, seen |-> s, notSeen |-> t, history |-> <<>>] :
               i \in 0..(n + 1), t \in SUBSET (CatalogIds(n) \ s)} :
           s \in SUBSET CatalogIds(n)}

defaultState == [currentIndex |-> 0, seen |-> {}, notSeen |-> {}, history |-> <<>>]

(* ------------------------------ Init ----------------------------------- *)

\* StorageManager as constructed, on an empty store.
StorageInit ==
    /\ stored = Absent
    /\ pendingState = NoPending
    /\ saveTimeout = "null"
    /\ saveTimers = 0
    /\ arg = NoArg
    /\ replaced = NoArg
    /\ written = <<>>

Init ==
    /\ items = <<>>
    /\ currentIndex = 0
    /\ seenSet = {}
    /\ notSeenSet = {}
    /\ history = <<>>
    /\ onUpdate = "null"
    /\ op = "none"
    /\ ret = "undefined"
    /\ nUpdate = 0
    /\ nComplete = 0
    /\ notified = <<>>
    /\ hint = -1
    /\ pre = NoSnap
    /\ run = -1
    /\ imported = NoImport
    /\ timers = <<>>
    /\ search = NoParam
    /\ totalSeen = 0
    /\ codecIn = NoInput
    /\ code = NoCode
    /\ decoded = NotDecoded
    /\ StorageInit

(* ----------------------------- operations ------------------------------ *)

\* Mutant: the saved ratings are added to those the cursor holds.
initMerges(n, st) ==
    /\ items' = Catalog(n)
    /\ seenSet' = seenSet \cup st.seen
    /\ notSeenSet' = (notSeenSet \cup st.notSeen) \ (seenSet \cup st.seen)
    /\ history' = st.history
    /\ onUpdate' = "set"
    /\ currentIndex' = SkipRated(st.currentIndex, Catalog(n), seenSet', notSeenSet')
    /\ op' = "init"
    /\ ret' = "undefined"
    /\ nUpdate' = triggerUpdate("set")
    /\ nComplete' = 0
    /\ notified' = Notifications(nUpdate', nComplete', getState')
    /\ hint' = st.currentIndex
    /\ pre' = NoSnap
    /\ run' = -1

\* init(itemList, savedState, callbacks)
init(n, st) ==
    /\ items' = Catalog(n)
    /\ seenSet' = st.seen
    /\ notSeenSet' = st.notSeen
    /\ history' = st.history
    /\ onUpdate' = "set"
    /\ currentIndex' = SkipRated(st.currentIndex, Catalog(n), st.seen, st.notSeen)
    /\ op' = "init"
    /\ ret' = "undefined"
    /\ nUpdate' = triggerUpdate("set")
    /\ nComplete' = 0
    /\ notified' = Notifications(nUpdate', nComplete', getState')
    /\ hint' = st.currentIndex
    /\ pre' = NoSnap
    /\ run' = IF st = defaultState THEN 0 ELSE -1

\* app.js init(): the one call made at application start, with the loaded State.
appInit ==
    /\ onUpdate = "null"
    /\ \E n \in 0..MaxN : \E st \in LoadedStates(n) : init(n, st)
    /\ imported' = NoImport
    /\ UNCHANGED <<timers, search, totalSeen, codecVars, storageVars>>

\* app.js handleApplyCode(): init again, on the same Catalog, with a decoded
\* State.
handleApplyCode ==
    /\ onUpdate = "set"
    /\ \E st \in DecodedStates(Len(items)) : init(Len(items), st) /\ imported' = st
    /\ UNCHANGED <<timers, search, totalSeen, codecVars, storageVars>>

\* Mutant: the increment without the skip over rated items.
advancedIndexNoSkip(seen, notSeen) == currentIndex + 1

\* advanceToNext: the pointer after one increment and the skip of rated items.
advancedIndex(seen, notSeen) == SkipRated(currentIndex + 1, items, seen, notSeen)

\* advanceToNext: onComplete is called when the Catalog is exhausted.
completionCalls(idx, seen, notSeen) ==
    IF idx >= Len(items) \/ ScanCurrent(idx, items, seen, notSeen) = Null
    THEN 1
    ELSE 0

\* Mutant: the update callback runs before the early return.
markFailsNotifies(name) ==
    /\ op' = name
    /\ ret' = "false"
    /\ nUpdate' = triggerUpdate(onUpdate)
    /\ nComplete' = 0
    /\ hint' = -1
    /\ imported' = imported
    /\ pre' = NoSnap
    /\ UNCHANGED <<cursorVars, run>>
    /\ notified' = Notifications(nUpdate', nComplete', getState')

\* markSeen / markNotSeen when getCurrentItem() found nothing.
markFails(name) ==
    /\ op' = name
    /\ ret' = "false"
    /\ nUpdate' = 0
    /\ nComplete' = 0
    /\ notified' = <<>>
    /\ hint' = -1
    /\ imported' = imported
    /\ pre' = NoSnap
    /\ UNCHANGED <<cursorVars, run>>

markSeen ==
    IF getCurrentItem = Null
    THEN markFails("markSeen")
    ELSE LET itemId == getCurrentItem.id
             seen2 == seenSet \cup {itemId}
             idx2 == advancedIndex(seen2, notSeenSet)
         IN /\ seenSet' = seen2
            /\ history' = trimHistory(Append(history, [id |-> itemId, action |-> "seen"]))
            /\ currentIndex' = idx2
            /\ op' = "markSeen"
            /\ ret' = "true"
            /\ nUpdate' = triggerUpdate(onUpdate)
            /\ nComplete' = completionCalls(idx2, seen2, notSeenSet)
            /\ hint' = -1
            /\ imported' = NoImport
            /\ pre' = Snapshot
            /\ run' = IF run >= 0 THEN run + 1 ELSE -1
            /\ UNCHANGED <<items, notSeenSet, onUpdate>>
            /\ notified' = Notifications(nUpdate', nComplete', getState')

markNotSeen ==
    IF getCurrentItem = Null
    THEN markFails("markNotSeen")
    ELSE LET itemId == getCurrentItem.id
             notSeen2 == notSeenSet \cup {itemId}
             idx2 == advancedIndex(seenSet, notSeen2)
         IN /\ notSeenSet' = notSeen2
            /\ history' = trimHistory(Append(history, [id |-> itemId, action |-> "notSeen"]))
            /\ currentIndex' = idx2
            /\ op' = "markNotSeen"
            /\ ret' = "true"
            /\ nUpdate' = triggerUpdate(onUpdate)
            /\ nComplete' = completionCalls(idx2, seenSet, notSeen2)
            /\ hint' = -1
            /\ imported' = NoImport
            /\ pre' = Snapshot
            /\ run' = IF run >= 0 THEN run + 1 ELSE -1
            /\ UNCHANGED <<items, seenSet, onUpdate>>
            /\ notified' = Notifications(nUpdate', nComplete', getState')

\* Mutant: the pointer is never rewound.
undoIndexNoRewind(id) == currentIndex

\* Mutant: the pointer steps back by one instead of going to the un-rated item.
undoIndexStepsBack(id) == IF currentIndex > 0 THEN currentIndex - 1 ELSE 0

\* Mutant: the pointer goes back to the first item.
undoIndexToStart(id) == 0

\* The pointer undo leaves: rewound to the un-rated item when it lies before.
undoIndex(id) ==
    LET itemIdx == findIndex(items, id)
    IN IF itemIdx # -1 /\ itemIdx < currentIndex THEN itemIdx ELSE currentIndex

\* Mutant: the update callback runs although nothing was undone.
undoFailsNotifies ==
    /\ op' = "undo"
    /\ ret' = "false"
    /\ nUpdate' = triggerUpdate(onUpdate)
    /\ nComplete' = 0
    /\ hint' = -1
    /\ imported' = imported
    /\ pre' = NoSnap
    /\ run' = -1
    /\ UNCHANGED cursorVars
    /\ notified' = Notifications(nUpdate', nComplete', getState')

\* undo when the history is empty.
undoFails ==
    /\ op' = "undo"
    /\ ret' = "false"
    /\ nUpdate' = 0
    /\ nComplete' = 0
    /\ notified' = <<>>
    /\ hint' = -1
    /\ imported' = imported
    /\ pre' = NoSnap
    /\ run' = -1
    /\ UNCHANGED cursorVars

\* Mutant: the oldest action is taken instead of the last one.
undoPopsOldest ==
    IF Len(history) = 0
    THEN undoFails
    ELSE LET lastAction == history[1]
         IN /\ history' = SubSeq(history, 2, Len(history))
            /\ seenSet' = IF lastAction.action = "seen"
                          THEN seenSet \ {lastAction.id}
                          ELSE seenSet
            /\ notSeenSet' = IF lastAction.action = "seen"
                             THEN notSeenSet
                             ELSE notSeenSet \ {lastAction.id}
            /\ currentIndex' = undoIndex(lastAction.id)
            /\ op' = "undo"
            /\ ret' = "true"
            /\ nUpdate' = triggerUpdate(onUpdate)
            /\ nComplete' = 0
            /\ hint' = -1
            /\ imported' = NoImport
            /\ pre' = NoSnap
            /\ run' = -1
            /\ UNCHANGED <<items, onUpdate>>
            /\ notified' = Notifications(nUpdate', nComplete', getState')

undo ==
    IF Len(history) = 0
    THEN undoFails
    ELSE LET lastAction == history[Len(history)]
         IN /\ history' = SubSeq(history, 1, Len(history) - 1)
            /\ seenSet' = IF lastAction.action = "seen"
                          THEN seenSet \ {lastAction.id}
                          ELSE seenSet
            /\ notSeenSet' = IF lastAction.action = "seen"
                             THEN notSeenSet
                             ELSE notSeenSet \ {lastAction.id}
            /\ currentIndex' = undoIndex(lastAction.id)
            /\ op' = "undo"
            /\ ret' = "true"
            /\ nUpdate' = triggerUpdate(onUpdate)
            /\ nComplete' = 0
            /\ hint' = -1
            /\ imported' = NoImport
            /\ pre' = IF op \in {"markSeen", "markNotSeen"} /\ ret = "true"
                      THEN pre
                      ELSE NoSnap
            /\ run' = -1
            /\ UNCHANGED <<items, onUpdate>>
            /\ notified' = Notifications(nUpdate', nComplete', getState')

\* Mutant: the undo history survives.
resetKeepsHistory ==
    /\ currentIndex' = 0
    /\ seenSet' = {}
    /\ notSeenSet' = {}
    /\ history' = history
    /\ op' = "reset"
    /\ ret' = "undefined"
    /\ nUpdate' = triggerUpdate(onUpdate)
    /\ nComplete' = 0
    /\ hint' = -1
    /\ imported' = NoImport
    /\ pre' = NoSnap
    /\ run' = IF onUpdate = "set" THEN 0 ELSE -1
    /\ UNCHANGED <<items, onUpdate>>
    /\ notified' = Notifications(nUpdate', nComplete', getState')

reset ==
    /\ currentIndex' = 0
    /\ seenSet' = {}
    /\ notSeenSet' = {}
    /\ history' = <<>>
    /\ op' = "reset"
    /\ ret' = "undefined"
    /\ nUpdate' = triggerUpdate(onUpdate)
    /\ nComplete' = 0
    /\ hint' = -1
    /\ imported' = NoImport
    /\ pre' = NoSnap
    /\ run' = IF onUpdate = "set" THEN 0 ELSE -1
    /\ UNCHANGED <<items, onUpdate>>
    /\ notified' = Notifications(nUpdate', nComplete', getState')

(* ------------------------ StorageManager persistence ------------------- *)

\* StorageManager.load(): the stored State over the default one.
load == IF stored = Absent THEN defaultState ELSE stored

\* Mutant: the earlier timer is left to run.
clearTimeoutNoop(n, handle) == n

\* clearTimeout(saveTimeout): a pending callback is removed from the event
\* loop, the handle of a fired one removes nothing.
clearTimeout(n, handle) == IF handle = "pending" THEN n - 1 ELSE n

\* history.slice(-50)
sliceLast(h, k) == IF Len(h) > k THEN SubSeq(h, Len(h) - k + 1, Len(h)) ELSE h

\* Mutant: the retry drops the ratings along with the history.
trimmedPendingDropsRatings ==
    [pendingState EXCEPT !.history = <<>>, !.seen = {}, !.notSeen = {}]

\* The State the quota retry writes: pendingState with its history trimmed.
trimmedPending ==
    [pendingState EXCEPT !.history = sliceLast(@, RETRY_HISTORY_SIZE)]

\* Mutant: a quota error is only logged.
setItemAttemptsNoRetry(first, second) == <<first>>

\* The localStorage.setItem calls of the debounce callback and how each one
\* ends, `first` and `second` being what the store answers: a second call is
\* made only after a QuotaExceededError.
setItemAttempts(first, second) ==
    IF first = "quota" THEN <<first, second>> ELSE <<first>>

SetItemOutcomes == {"ok", "quota", "error"}

\* Mutant: the timer of the earlier save is left to run.
debounceNoCancel(n, handle) == n + 1

\* if (saveTimeout) clearTimeout(saveTimeout); saveTimeout = setTimeout(...)
debounce(n, handle) ==
    (IF handle # "null" THEN clearTimeout(n, handle) ELSE n) + 1

\* save(state): the State replaces the pending one and the debounce timer is
\* started again.
save(state) ==
    /\ pendingState' = state
    /\ saveTimers' = debounce(saveTimers, saveTimeout)
    /\ saveTimeout' = "pending"
    /\ arg' = state
    /\ written' = <<>>

\* Mutant: the callback drops the pending State without writing it.
saveTimerDropsState ==
    /\ saveTimers > 0
    /\ written' = <<>>
    /\ pendingState' = NoPending
    /\ saveTimers' = saveTimers - 1
    /\ saveTimeout' = "fired"
    /\ op' = "saveTimer"
    /\ UNCHANGED <<cursorVars, ret, nUpdate, nComplete, notified, ghostVars, timers, search, totalSeen, codecVars, arg,
                   replaced, stored>>

\* The callback save handed to setTimeout runs.
saveTimerFires ==
    /\ saveTimers > 0
    /\ \E first \in SetItemOutcomes : \E second \in SetItemOutcomes :
           LET attempts == setItemAttempts(first, second)
           IN /\ written' = attempts
              /\ stored' = IF attempts[1] = "ok" THEN pendingState
                            ELSE IF Len(attempts) = 2 /\ attempts[2] = "ok"
                            THEN trimmedPending
                            ELSE stored
              /\ pendingState' = IF attempts[1] = "ok" THEN NoPending
                                  ELSE IF attempts[1] = "quota" THEN trimmedPending
                                  ELSE pendingState
    /\ saveTimers' = saveTimers - 1
    /\ saveTimeout' = "fired"
    /\ op' = "saveTimer"
    /\ UNCHANGED <<cursorVars, ret, nUpdate, nComplete, notified, ghostVars, timers, search, totalSeen, codecVars, arg,
                   replaced>>

\* saveImmediate(state), state being NoArg when the call has no argument.
saveImmediate(state) ==
    LET finalState == IF state # NoArg THEN state ELSE pendingState
    IN /\ saveTimers' = IF saveTimeout # "null"
                         THEN clearTimeout(saveTimers, saveTimeout)
                         ELSE saveTimers
       /\ saveTimeout' = "null"
       /\ pendingState' = pendingState
       /\ arg' = IF state # NoArg THEN state ELSE arg
       /\ IF finalState # NoPending
          THEN \E outcome \in SetItemOutcomes :
                   /\ written' = <<outcome>>
                   /\ stored' = IF outcome = "ok" THEN finalState ELSE stored
          ELSE /\ written' = <<>>
               /\ stored' = stored

\* StorageManager.reset(): the key is removed; the timer and the pending State
\* are left as they are.
storageReset ==
    /\ stored' = Absent
    /\ written' = <<>>
    /\ UNCHANGED <<pendingState, saveTimeout, saveTimers, arg, replaced>>

(* ------------------------------- claims -------------------------------- *)

Marks == {"markSeen", "markNotSeen"}

N == Len(items)

Unrated(p) == ~isRated(items[p + 1], seenSet, notSeenSet)

\* C1: starting from init with a State whose seen and notSeen are disjoint,
\* no id is in both seen and notSeen after any sequence of markSeen,
\* markNotSeen, undo and reset calls.
C1_SeenNotSeenDisjoint == seenSet \cap notSeenSet = {}

\* C1 witness: an undo succeeded and left ratings of both kinds.
C1_Witness ==
    /\ op = "undo"
    /\ ret = "true"
    /\ seenSet # {}
    /\ notSeenSet # {}

\* C2 as stated: the raw pointer equals the Catalog length N or designates an
\* unrated item, which is the one getCurrentItem() returns.
C2_PointerAtEndOrUnrated ==
    onUpdate = "set" =>
        \/ currentIndex = N
        \/ /\ currentIndex < N
           /\ Unrated(currentIndex)
           /\ getCurrentItem = [id |-> items[currentIndex + 1], index |-> currentIndex]

\* C2 amended: the raw pointer is at or beyond the Catalog length N (and
\* getCurrentItem() then returns nothing) or designates an unrated item, which
\* is the one getCurrentItem() returns.
C2_PointerPastEndOrUnrated ==
    onUpdate = "set" =>
        \/ currentIndex >= N /\ getCurrentItem = Null
        \/ /\ currentIndex < N
           /\ Unrated(currentIndex)
           /\ getCurrentItem = [id |-> items[currentIndex + 1], index |-> currentIndex]

\* C2 witness: after a rating the pointer stands on an unrated item with a
\* rated item somewhere behind it and another one ahead of it.
C2_Witness ==
    /\ op \in Marks
    /\ ret = "true"
    /\ currentIndex < N
    /\ Unrated(currentIndex)
    /\ \E p \in (currentIndex + 1)..(N - 1) : ~Unrated(p)

\* C4: a successful markSeen or markNotSeen immediately followed by undo()
\* restores seen, notSeen, the raw pointer and the result of getCurrentItem();
\* the undone item is the current item again and is in neither set.
C4_UndoRestoresRating ==
    (op = "undo" /\ pre # NoSnap) =>
        /\ ret = "true"
        /\ Snapshot = pre
        /\ getCurrentItem # Null
        /\ ~isRated(getCurrentItem.id, seenSet, notSeenSet)

\* C4 witness: a rating was undone in a state that holds other ratings, the
\* pointer standing behind a rated item.
C4_Witness ==
    /\ op = "undo"
    /\ pre # NoSnap
    /\ seenSet # {}
    /\ \E p \in (currentIndex + 1)..(N - 1) : ~Unrated(p)

\* C5: from the empty State on a Catalog of N >= 1 items, with only markSeen /
\* markNotSeen calls, isComplete() is false after each of the first N-1 ratings
\* and true after the Nth.
C5_CompleteAtNthRating ==
    (run >= 0 /\ N >= 1) =>
        /\ run <= N
        /\ isComplete <=> run = N

\* C5 witness: the Nth rating of a Catalog of at least two items was made.
C5_Witness ==
    /\ run = N
    /\ N >= 2
    /\ op \in Marks

\* C7: undo() with an empty history returns false, changes nothing in seen,
\* notSeen, history or the pointer, and delivers no notification.
C7_UndoEmptyHistory ==
    [][(op' = "undo" /\ Len(history) = 0) =>
          /\ ret' = "false"
          /\ UNCHANGED cursorVars
          /\ nUpdate' = 0
          /\ nComplete' = 0]_vars

\* C7 witness: undo failed in a state that holds ratings.
C7_Witness ==
    /\ op = "undo"
    /\ ret = "false"
    /\ seenSet # {}
    /\ notSeenSet # {}

\* C8 as stated: after every cursor operation, init included, the history
\* holds at most the configured bound of actions.
C8_HistoryBounded == Len(history) <= HISTORY_MAX_SIZE

\* The least position p >= h whose item is unrated, or `otherwise`.
LeastUnratedFrom(h, otherwise) ==
    IF \E p \in h..(N - 1) : Unrated(p)
    THEN CHOOSE p \in h..(N - 1) :
             Unrated(p) /\ \A q \in h..(p - 1) : ~Unrated(q)
    ELSE otherwise

\* C9 as stated: after init the raw pointer is the least position
\* p >= state.currentIndex whose item is unrated, or N when there is none.
C9_InitPointerLeastOrN ==
    op = "init" => currentIndex = LeastUnratedFrom(hint, N)

\* C9 amended: after init the raw pointer is the least position
\* p >= state.currentIndex whose item is unrated or, when there is none, the
\* larger of N and state.currentIndex; a persisted currentIndex that designates
\* an already-rated item is never the current item.
C9_InitPointerLeast ==
    op = "init" =>
        /\ currentIndex = LeastUnratedFrom(hint, IF hint > N THEN hint ELSE N)
        /\ (hint < N /\ ~Unrated(hint)) => getCurrentItem.index # hint

\* C9 witness: init was given a currentIndex that designates a rated item and
\* moved the pointer over more than one rated item to an unrated one.
C9_Witness ==
    /\ op = "init"
    /\ hint < N
    /\ ~Unrated(hint)
    /\ currentIndex > hint + 1
    /\ currentIndex < N

\* The current item init would have produced for the hint h, seen and notSeen
\* being those it was given.
CurrentAfterInit(h) ==
    ScanCurrent(SkipRated(h, items, seenSet, notSeenSet), items, seenSet, notSeenSet)

\* C10: for a fixed Catalog and fixed seen / notSeen, init with any two
\* currentIndex values in [0, N] yields the same getCurrentItem(), and the
\* cursor is never Complete with unrated items left because of the hint.
C10_HintNotAuthoritative ==
    (op = "init" /\ hint <= N) =>
        /\ \A h \in 0..N : CurrentAfterInit(h) = getCurrentItem
        /\ isComplete => \A p \in 0..(N - 1) : ~Unrated(p)

\* C13: after a successful import the cursor's seen and notSeen are exactly
\* the decoded sets, no earlier rating surviving, and its history is empty, so
\* undo() returns false until a new rating is made.
C13_ImportOverwrites ==
    /\ [](imported # NoImport =>
             /\ seenSet = imported.seen
             /\ notSeenSet = imported.notSeen
             /\ history = <<>>)
    /\ [][(imported # NoImport /\ op' = "undo") =>
             /\ ret' = "false"
             /\ imported' = imported]_vars

\* C13 witness: undo was refused on a cursor holding imported ratings of both
\* kinds, with an item left to rate.
C13_Witness ==
    /\ imported # NoImport
    /\ op = "undo"
    /\ ret = "false"
    /\ imported.seen # {}
    /\ imported.notSeen # {}
    /\ ~isComplete

CursorCalls == {"init", "markSeen", "markNotSeen", "undo", "reset"}

\* The notifications of the given kind the last call delivered.
Delivered(kind) == {i \in DOMAIN notified : notified[i].kind = kind}

\* C22: on an initialised cursor each successful mutating call (init, markSeen,
\* markNotSeen, undo, reset) delivers exactly one update notification, and a
\* failed call (a mark while Complete, undo with an empty history) delivers
\* none.
C22_OneUpdatePerCall ==
    (onUpdate = "set" /\ op \in CursorCalls) =>
        IF ret = "false"
        THEN nUpdate = 0 /\ Delivered("update") = {}
        ELSE nUpdate = 1 /\ Cardinality(Delivered("update")) = 1

\* C22 witness: an undo succeeded and delivered its one notification, ratings
\* being left to undo.
C22_Witness ==
    /\ op = "undo"
    /\ ret = "true"
    /\ Len(notified) = 1
    /\ notified[1].kind = "update"
    /\ history # <<>>

UndoResetLeaveComplete ==
    /\ (op' = "undo" /\ ret' = "true") =>
           /\ ~isComplete'
           /\ getCurrentItem'.id = history[Len(history)].id
           /\ ~isRated(getCurrentItem'.id, seenSet', notSeenSet')
    /\ (op' = "reset" /\ N >= 1) => ~isComplete'

C26_CurrentIsWindowHead ==
    /\ getCurrentItem = Null <=> getWindow = <<>>
    /\ getCurrentItem # Null => getWindow[1] = getCurrentItem

\* C26 witness: a full window whose head is the current item, a rated item
\* lying between its first two items.
C26_Witness ==
    /\ Len(getWindow) = WINDOW_SIZE
    /\ getWindow[1] = getCurrentItem
    /\ getWindow[2].index > getWindow[1].index + 1

\* The positions at or after the pointer whose item is unrated.
UnratedAhead == {p \in currentIndex..(N - 1) : Unrated(p)}

\* C27: getWindow() returns at most the window size of items, all of them
\* unrated, in strictly increasing Catalog position starting at the pointer;
\* rated items met while scanning are skipped without counting, and fewer than
\* size items are returned only when fewer unrated items remain at or after
\* the pointer.
C27_WindowContents ==
    LET w == getWindow
    IN /\ Len(w) <= WINDOW_SIZE
       /\ \A i \in 1..Len(w) :
              /\ w[i].index \in UnratedAhead
              /\ w[i].id = items[w[i].index + 1]
       /\ \A i \in 1..(Len(w) - 1) :
              /\ w[i].index < w[i + 1].index
              /\ \A p \in (w[i].index + 1)..(w[i + 1].index - 1) : ~Unrated(p)
       /\ w # <<>> => \A p \in currentIndex..(w[1].index - 1) : ~Unrated(p)
       /\ Len(w) = IF Cardinality(UnratedAhead) < WINDOW_SIZE
                   THEN Cardinality(UnratedAhead)
                   ELSE WINDOW_SIZE

\* C27 witness: after an undo the window is full although a rated item lies
\* ahead of the pointer, which the scan skipped inside the window.
C27_Witness ==
    /\ op = "undo"
    /\ ret = "true"
    /\ Len(getWindow) = WINDOW_SIZE
    /\ getWindow[WINDOW_SIZE].index - getWindow[1].index >= WINDOW_SIZE

\* C28: after reset(), seen, notSeen and history are empty and the pointer is
\* 0, so on a non-empty Catalog getCurrentItem() is the first Catalog item,
\* whatever the state before the call; on an initialised cursor exactly one
\* update notification fires, and no completion notification.
C28_ResetClears ==
    op = "reset" =>
        /\ seenSet = {}
        /\ notSeenSet = {}
        /\ history = <<>>
        /\ currentIndex = 0
        /\ N >= 1 => getCurrentItem = [id |-> items[1], index |-> 0]
        /\ onUpdate = "set" => notified = <<[kind |-> "update", state |-> defaultState]>>

\* C28 witness: reset ran on a Catalog of several items and its notification
\* carried the empty State.
C28_Witness ==
    /\ op = "reset"
    /\ N >= 2
    /\ nUpdate = 1
    /\ getCurrentItem.index = 0
    /\ notified[1].state.seen = {}

\* C30: a successful markSeen (resp. markNotSeen) adds exactly one id, that of
\* the item getCurrentItem() returned just before the call, to seen (resp.
\* notSeen), leaves the other set unchanged, appends {id, kind} as the last
\* history entry, and moves the pointer to the next unrated position after the
\* old pointer, or to N.
C30_MarkFrame ==
    (op \in Marks /\ ret = "true") =>
        LET id == pre.current.id
        IN /\ pre.current # Null
           /\ id \notin pre.seen \cup pre.notSeen
           /\ op = "markSeen" =>
                  /\ seenSet = pre.seen \cup {id}
                  /\ notSeenSet = pre.notSeen
                  /\ history[Len(history)] = [id |-> id, action |-> "seen"]
           /\ op = "markNotSeen" =>
                  /\ notSeenSet = pre.notSeen \cup {id}
                  /\ seenSet = pre.seen
                  /\ history[Len(history)] = [id |-> id, action |-> "notSeen"]
           /\ currentIndex > pre.currentIndex
           /\ currentIndex = LeastUnratedFrom(pre.currentIndex + 1, N)

\* C30 witness: markSeen rated the current item, filled the history and moved
\* the pointer over an item marked not seen to the next unrated one.
C30_Witness ==
    /\ op = "markSeen"
    /\ ret = "true"
    /\ pre.notSeen # {}
    /\ currentIndex > pre.currentIndex + 1
    /\ currentIndex < N
    /\ Len(history) = HISTORY_MAX_SIZE

\* C36 as stated: whenever the cursor is Complete after an init or a
\* successful mark call on a Catalog with items, that call has delivered the
\* completion notification, also when init is given a State in which every
\* item is rated.
C36_CompleteWasNotified ==
    (op \in {"init"} \cup Marks /\ ret # "false" /\ Len(items) >= 1 /\ isComplete) =>
        /\ nComplete = 1
        /\ Delivered("complete") # {}

(* ------------------- the cursor called through its API ----------------- *)

markSeenCall == markSeen /\ UNCHANGED <<timers, search, totalSeen, codecVars, storageVars>>

markNotSeenCall == markNotSeen /\ UNCHANGED <<timers, search, totalSeen, codecVars, storageVars>>

undoCall == undo /\ UNCHANGED <<timers, search, totalSeen, codecVars, storageVars>>

resetCall == reset /\ UNCHANGED <<timers, search, totalSeen, codecVars, storageVars>>

Next ==
    \/ appInit
    \/ handleApplyCode
    \/ markSeenCall
    \/ markNotSeenCall
    \/ undoCall
    \/ resetCall

Spec == Init /\ [][Next]_vars

(* ---------------- the cursor started without saved progress ----------- *)

\* app.js init() when StorageManager.load() found nothing: the default State.
initDefault ==
    /\ onUpdate = "null"
    /\ \E n \in 0..MaxN : init(n, defaultState)
    /\ imported' = NoImport
    /\ UNCHANGED <<timers, search, totalSeen, codecVars, storageVars>>

NextFresh == initDefault \/ markSeenCall \/ markNotSeenCall \/ undoCall \/ resetCall

SpecFresh == Init /\ [][NextFresh]_vars

\* C35: from init with the default empty State or from reset, after any
\* sequence of markSeen, markNotSeen and undo the rated ids are exactly the
\* ids at the Catalog positions before the pointer, the pointer lies in
\* 0..N, getProgress().current equals the pointer and getProgress().remaining
\* is N minus the pointer and not negative.
C35_RatedArePrefix ==
    onUpdate = "set" =>
        /\ currentIndex \in 0..Len(items)
        /\ seenSet \cup notSeenSet = {items[p] : p \in 1..currentIndex}
        /\ getProgress.current = currentIndex
        /\ getProgress.remaining = Len(items) - currentIndex
        /\ getProgress.remaining >= 0

\* C35 witness: an undo took back a rating and no further undo is possible
\* because the history was trimmed, with ratings of both kinds left before
\* the pointer.
C35_Witness ==
    /\ op = "undo"
    /\ ret = "true"
    /\ history = <<>>
    /\ currentIndex >= 1
    /\ seenSet \cup notSeenSet = {items[p] : p \in 1..currentIndex}
    /\ getProgress.remaining = Len(items) - currentIndex

(* ------------- the cursor given hand-written progress codes ----------- *)

\* Codes written by hand, for a Catalog of n items: a v1 envelope passes
\* importCompressed with any two arrays and any i.
WrittenCodes(n) ==
    {[fmt |-> "b64", json |-> [v |-> 1, s |-> S, n |-> T, i |-> k]] :
        S \in SUBSET CatalogIds(n), T \in SUBSET CatalogIds(n), k \in (-1)..(n + 1)}

\* items[idx] is undefined for a negative idx, which the loops' test
\* idx < items.length lets through, and getItemId(undefined) raises a TypeError.
scanRaises(idx) == idx < 0

\* init(itemList, savedState, callbacks) when its loop raises: the State has
\* been copied, triggerUpdate is not reached.
initRaises(n, st) ==
    /\ items' = Catalog(n)
    /\ currentIndex' = st.currentIndex
    /\ seenSet' = st.seen
    /\ notSeenSet' = st.notSeen
    /\ history' = st.history
    /\ onUpdate' = "set"
    /\ op' = "init"
    /\ ret' = "error"
    /\ nUpdate' = 0
    /\ nComplete' = 0
    /\ notified' = <<>>
    /\ hint' = st.currentIndex
    /\ pre' = NoSnap
    /\ run' = -1

\* markSeen / markNotSeen when getCurrentItem() raises, at their first line.
markRaises(name) ==
    /\ op' = name
    /\ ret' = "error"
    /\ nUpdate' = 0
    /\ nComplete' = 0
    /\ notified' = <<>>
    /\ hint' = -1
    /\ imported' = imported
    /\ pre' = NoSnap
    /\ UNCHANGED <<cursorVars, run>>

\* undo when getWindow() raises inside triggerUpdate: the action has been
\* popped and its rating removed, the pointer is left (no Catalog position is
\* below a negative pointer), onUpdate is not reached.
undoRaises ==
    LET lastAction == history[Len(history)]
    IN /\ history' = SubSeq(history, 1, Len(history) - 1)
       /\ seenSet' = IF lastAction.action = "seen"
                     THEN seenSet \ {lastAction.id}
                     ELSE seenSet
       /\ notSeenSet' = IF lastAction.action = "seen"
                        THEN notSeenSet
                        ELSE notSeenSet \ {lastAction.id}
       /\ op' = "undo"
       /\ ret' = "error"
       /\ nUpdate' = 0
       /\ nComplete' = 0
       /\ notified' = <<>>
       /\ hint' = -1
       /\ imported' = NoImport
       /\ pre' = NoSnap
       /\ run' = -1
       /\ UNCHANGED <<items, currentIndex, onUpdate>>

\* app.js handleApplyCode() with a hand-written code: init with what
\* importCompressed returns, as the cursor sees it.
handleApplyCodeWritten ==
    /\ onUpdate = "set"
    /\ \E c \in WrittenCodes(Len(items)) :
           LET newState == importCompressed(c, items, Len(items))
           IN /\ IF scanRaises(newState.currentIndex)
                 THEN initRaises(Len(items), newState)
                 ELSE init(Len(items), newState)
              /\ imported' = newState
    /\ UNCHANGED <<timers, search, totalSeen, codecVars, storageVars>>

markSeenWritten ==
    /\ IF scanRaises(currentIndex) THEN markRaises("markSeen") ELSE markSeen
    /\ UNCHANGED <<timers, search, totalSeen, codecVars, storageVars>>

markNotSeenWritten ==
    /\ IF scanRaises(currentIndex) THEN markRaises("markNotSeen") ELSE markNotSeen
    /\ UNCHANGED <<timers, search, totalSeen, codecVars, storageVars>>

undoWritten ==
    /\ IF scanRaises(currentIndex) /\ Len(history) > 0 THEN undoRaises ELSE undo
    /\ UNCHANGED <<timers, search, totalSeen, codecVars, storageVars>>

NextWritten ==
    \/ appInit
    \/ handleApplyCodeWritten
    \/ markSeenWritten
    \/ markNotSeenWritten
    \/ undoWritten
    \/ resetCall

SpecWritten == Init /\ [][NextWritten]_vars

\* The read-only operations of the cursor.
Queries == {"getCurrentItem", "getWindow", "getPreloadQueue", "getProgress", "isComplete"}

\* Whether a read-only operation called in the current state raises an error:
\* all of them but getProgress scan the Catalog from the pointer.
Raises(name) == name # "getProgress" /\ scanRaises(currentIndex)

\* C25 as stated: no cursor operation (init, getCurrentItem, getWindow,
\* getPreloadQueue, markSeen, markNotSeen, undo, getProgress, reset,
\* isComplete) raises an error in any reachable state.
C25_NoOperationRaises ==
    /\ ret # "error"
    /\ \A name \in Queries : ~Raises(name)

\* C29 as stated: every State importCompressed returns, for a v1 code as well
\* as for a v2 code, has seen and notSeen disjoint, and so has the cursor that
\* init was given it.
C29_DecodedSetsDisjoint ==
    imported # NoImport =>
        /\ imported.seen \cap imported.notSeen = {}
        /\ op = "init" => seenSet \cap notSeenSet = {}

(* ------------- the cursor on a Catalog that lost an item --------------- *)

\* app.js init() on a Catalog that lost its last item since the stored State
\* was written: the State rates and names in its history ids the Catalog no
\* longer has.
appInitShrunk ==
    /\ onUpdate = "null"
    /\ \E n \in 0..(MaxN - 1) : \E st \in LoadedStates(n + 1) : init(n, st)
    /\ imported' = NoImport
    /\ UNCHANGED <<timers, search, totalSeen, codecVars, storageVars>>

NextShrunk ==
    \/ appInit
    \/ appInitShrunk
    \/ markSeenCall
    \/ markNotSeenCall
    \/ undoCall
    \/ resetCall

SpecShrunk == Init /\ [][NextShrunk]_vars

\* C31: a successful undo() pops exactly the last history action and removes
\* its id only from the set recorded in that action; when the id's Catalog
\* position is before the pointer, the pointer becomes that position and the
\* undone item is the current item, otherwise (position at or after the
\* pointer, or id not in the Catalog) the pointer is unchanged.
C31_UndoFrame ==
    [][(op' = "undo" /\ ret' = "true") =>
          LET last == history[Len(history)]
              before == {p \in 0..(Len(items) - 1) :
                            items[p + 1] = last.id /\ p < currentIndex}
          IN /\ history' = SubSeq(history, 1, Len(history) - 1)
             /\ last.action = "seen" =>
                    seenSet' = seenSet \ {last.id} /\ notSeenSet' = notSeenSet
             /\ last.action = "notSeen" =>
                    notSeenSet' = notSeenSet \ {last.id} /\ seenSet' = seenSet
             /\ IF before # {}
                THEN /\ currentIndex' \in before
                     /\ getCurrentItem' = [id |-> last.id, index |-> currentIndex']
                ELSE currentIndex' = currentIndex]_vars

\* C31 witness: an undo succeeded on a cursor that holds a rating of an id the
\* Catalog does not have, the history naming further actions and an item
\* being left to rate.
C31_Witness ==
    /\ op = "undo"
    /\ ret = "true"
    /\ (seenSet \cup notSeenSet) \ CatalogIds(Len(items)) # {}
    /\ currentIndex < Len(items)
    /\ history # <<>>

(* ------------- the cursor driven by the swipe handlers of app.js -------- *)

\* animateButtonSwipe(direction): returns early without a top card or when
\* the cursor is complete, otherwise animates the top card, the current item
\* of the last update, and defers the rating by 300 ms.
animateButtonSwipe ==
    /\ onUpdate = "set"
    /\ ~isComplete
    /\ Len(timers) < MaxTimers
    /\ \E direction \in {"right", "left"} :
           timers' = Append(timers, [direction |-> direction, card |-> getCurrentItem.id])
    /\ UNCHANGED <<cursorVars, callVars, ghostVars, search, totalSeen, codecVars, storageVars>>

\* handleDragEnd(e) past the swipe threshold: the dragged card is a rendered
\* one, so an unrated item was left at the last update; the rating is deferred
\* by 300 ms.
handleDragEnd ==
    /\ onUpdate = "set"
    /\ getCurrentItem # Null
    /\ Len(timers) < MaxTimers
    /\ \E direction \in {"right", "left"} :
           timers' = Append(timers, [direction |-> direction, card |-> getCurrentItem.id])
    /\ UNCHANGED <<cursorVars, callVars, ghostVars, search, totalSeen, codecVars, storageVars>>

\* The oldest pending callback runs: SlidingWindow.markSeen() for a swipe to
\* the right, SlidingWindow.markNotSeen() for one to the left.
swipeTimerFires ==
    /\ timers # <<>>
    /\ IF Head(timers).direction = "right" THEN markSeen ELSE markNotSeen
    /\ timers' = Tail(timers)
    /\ UNCHANGED <<search, totalSeen, codecVars, storageVars>>

\* The undo button, which handleUpdate disables while canUndo is false.
undoButton ==
    /\ onUpdate = "set"
    /\ Len(history) > 0
    /\ undo
    /\ UNCHANGED <<timers, search, totalSeen, codecVars, storageVars>>

\* handleReset() once confirmed.
handleReset ==
    /\ onUpdate = "set"
    /\ reset
    /\ UNCHANGED <<timers, search, totalSeen, codecVars, storageVars>>

NextSwipe ==
    \/ appInit
    \/ animateButtonSwipe
    \/ handleDragEnd
    \/ swipeTimerFires
    \/ undoButton
    \/ handleReset

SpecSwipe == Init /\ [][NextSwipe]_vars

\* C37 as stated: every deferred rating is recorded against the item that was
\* the top card when the user swiped or pressed the button, whatever ran
\* between the user action and the deferred call.
C37_RatesTheSwipedCard ==
    [][(timers # <<>> /\ timers' = Tail(timers) /\ ret' = "true") =>
          history'[Len(history')].id = Head(timers).card]_vars

(* --------------------- the codec as a pure function --------------------- *)

\* The States handed to exportCompressed: getState() of a cursor on the
\* Catalog, with currentIndex <= N.
ExportStates(n) == {st \in LoadedStates(n) : st.currentIndex <= n}

\* A Catalog of n items, config.data.totalCount, a State to export and the
\* Catalog present when the code is read back: the same one, or one truncated
\* to its first k items.
InitCodec ==
    /\ items = <<>>
    /\ currentIndex = 0
    /\ seenSet = {}
    /\ notSeenSet = {}
    /\ history = <<>>
    /\ onUpdate = "null"
    /\ op = "none"
    /\ ret = "undefined"
    /\ nUpdate = 0
    /\ nComplete = 0
    /\ notified = <<>>
    /\ hint = -1
    /\ pre = NoSnap
    /\ run = -1
    /\ imported = NoImport
    /\ timers = <<>>
    /\ search = NoParam
    /\ totalSeen = 0
    /\ \E n \in 0..MaxN : \E totalCount \in 1..MaxTotalCount :
           \E st \in ExportStates(n) : \E k \in 0..n :
               codecIn = [items |-> Catalog(n), totalCount |-> totalCount,
                          state |-> st, present |-> Catalog(k)]
    /\ code = NoCode
    /\ decoded = NotDecoded
    /\ StorageInit

exportCall ==
    /\ code = NoCode
    /\ code' = exportCompressed(codecIn.state, codecIn.items, codecIn.totalCount)
    /\ UNCHANGED <<cursorVars, callVars, ghostVars, timers, search, totalSeen, codecIn, decoded, storageVars>>

importCall ==
    /\ code # NoCode
    /\ decoded = NotDecoded
    /\ decoded' = importCompressed(code, codecIn.present, codecIn.totalCount)
    /\ UNCHANGED <<cursorVars, callVars, ghostVars, timers, search, totalSeen, codecIn, code, storageVars>>

\* exportLegacy(state), the code exportCompressed falls back to when the
\* compressed export throws.
exportLegacyCall ==
    /\ code = NoCode
    /\ code' = exportLegacy(codecIn.state)
    /\ UNCHANGED <<cursorVars, callVars, ghostVars, timers, search, totalSeen, codecIn, decoded, storageVars>>

NextCodec == exportCall \/ exportLegacyCall \/ importCall

SpecCodec == InitCodec /\ [][NextCodec]_vars

\* C3: for any Catalog of size N and any State with currentIndex <= N,
\* decode(encode(state, catalog), catalog) returns a State whose seen and
\* notSeen are set-equal to the originals and whose currentIndex equals the
\* original.
C3_RoundTrip ==
    (decoded # NotDecoded /\ codecIn.present = codecIn.items) =>
        /\ decoded # Null
        /\ decoded.seen = codecIn.state.seen
        /\ decoded.notSeen = codecIn.state.notSeen
        /\ decoded.currentIndex = codecIn.state.currentIndex

\* C11: importCompressed, given only the code, reads both generations: a v1
\* code decodes to the State with seen = s, notSeen = n and currentIndex = i,
\* and a v2 code produced by exportCompressed decodes to a non-null State.
C11_BothGenerations ==
    decoded # NotDecoded =>
        /\ decoded # Null
        /\ code.json.v = 1 =>
               /\ decoded.seen = code.json.s
               /\ decoded.notSeen = code.json.n
               /\ decoded.currentIndex = code.json.i
               /\ decoded.history = <<>>

\* C11 witness: a v1 code with ratings of both kinds and a pointer past the
\* first item was decoded.
C11_Witness ==
    /\ decoded # NotDecoded
    /\ decoded # Null
    /\ code.json.v = 1
    /\ decoded.seen # {}
    /\ decoded.notSeen # {}
    /\ decoded.currentIndex > 0

\* C14 as stated: encoding any State against a Catalog of size N produces,
\* before compression, a bit buffer of exactly ceil(2N/8) bytes.
C14_BufferSize ==
    (code # NoCode /\ code.json.v = 2) =>
        Len(atob(code.json.d)) = (2 * Len(codecIn.items) + 7) \div 8

\* The ids of the first k items of the Catalog the code was made from.
PresentIds(k) == {codecIn.items[p] : p \in 1..k}

\* C15: decoding a v2 code whose bit buffer covers more positions than the
\* Catalog present at decode time returns a State whose seen and notSeen hold
\* only ids of the present Catalog, those its positions carry in the buffer;
\* the bit fields beyond the Catalog length are ignored.
C15_LongerBufferIgnored ==
    (/\ decoded # NotDecoded
     /\ code.json.v = 2
     /\ 4 * Len(atob(code.json.d)) > Len(codecIn.present)) =>
        /\ decoded # Null
        /\ decoded.seen \subseteq PresentIds(Len(codecIn.present)) \cap codecIn.state.seen
        /\ decoded.notSeen \subseteq
               PresentIds(Len(codecIn.present)) \cap codecIn.state.notSeen
        /\ Len(codecIn.present) <= codecIn.totalCount =>
               /\ decoded.seen = PresentIds(Len(codecIn.present)) \cap codecIn.state.seen
               /\ decoded.notSeen =
                      PresentIds(Len(codecIn.present)) \cap codecIn.state.notSeen

\* C15 witness: the code carries a rating at a position the present Catalog
\* does not have, and the decoded State holds a rating of the present Catalog.
C15_Witness ==
    /\ decoded # NotDecoded
    /\ code.json.v = 2
    /\ Len(codecIn.present) < Len(codecIn.items)
    /\ Len(codecIn.items) <= codecIn.totalCount
    /\ codecIn.items[Len(codecIn.items)] \in codecIn.state.seen
    /\ decoded # Null
    /\ decoded.notSeen # {}

\* The two bits at bit offset 2p of a buffer, 0 beyond its end.
BitField(bytes, p) ==
    LET byteIndex == (2 * p) \div 8
    IN IF byteIndex + 1 <= Len(bytes)
       THEN (bytes[byteIndex + 1] \div Pow2((2 * p) % 8)) % 4
       ELSE 0

\* C32 as stated: in the buffer exportCompressed produces, for every Catalog
\* position p the two bits at bit offset 2p are 1 when the item's id is in
\* seen, 2 when it is in notSeen and not in seen, and 0 otherwise; the value 3
\* never occurs, no other bits are set, and importCompressed reads the same
\* two bits for p.
C32_BitLayout ==
    (code # NoCode /\ code.fmt = "lz") =>
        LET bytes == atob(code.json.d)
            st == codecIn.state
            its == codecIn.items
            had == codecIn.present
        IN /\ \A p \in 0..(Len(its) - 1) :
                  BitField(bytes, p) = IF its[p + 1] \in st.seen THEN 1
                                       ELSE IF its[p + 1] \in st.notSeen THEN 2
                                       ELSE 0
           /\ \A q \in 0..(4 * Len(bytes) - 1) :
                  /\ BitField(bytes, q) # 3
                  /\ q >= Len(its) => BitField(bytes, q) = 0
           /\ decoded # NotDecoded =>
                  /\ decoded.seen =
                         {had[p + 1] : p \in {q \in 0..(Len(had) - 1) : BitField(bytes, q) = 1}}
                  /\ decoded.notSeen =
                         {had[p + 1] : p \in {q \in 0..(Len(had) - 1) : BitField(bytes, q) = 2}}

\* C34: when the compressed export fails inside, exportCompressed returns a
\* v1 code instead of raising, and importCompressed of that code returns a
\* State with the seen, notSeen and currentIndex of the exported State.
C34_FallbackRoundTrip ==
    (code # NoCode /\ code.fmt = "b64") =>
        /\ code.json.v = 1
        /\ decoded # NotDecoded =>
               /\ decoded # Null
               /\ decoded.seen = codecIn.state.seen
               /\ decoded.notSeen = codecIn.state.notSeen
               /\ decoded.currentIndex = codecIn.state.currentIndex

\* C34 witness: the fallback code of a State with ratings of both kinds and
\* the pointer at the end was read back where the Catalog has lost items.
C34_Witness ==
    /\ code # NoCode
    /\ code.fmt = "b64"
    /\ decoded # NotDecoded
    /\ decoded.seen = codecIn.state.seen
    /\ decoded.seen # {}
    /\ decoded.notSeen # {}
    /\ decoded.currentIndex = Len(codecIn.items)
    /\ codecIn.present # codecIn.items

(* ------------------- importCompressed given any text ------------------ *)

\* The texts importCompressed can be given for a State: its codes of both
\* generations, the v1 envelope compressed and the v2 envelope in plain
\* base64, a v1 code whose JSON text starts with white space, envelopes of an
\* unknown version in both encodings, a v2 envelope without d, and a text
\* that is no code at all.
ReceivedCodes(st, its, totalCount) ==
    {exportCompressed(st, its, totalCount),
     exportLegacy(st),
     compressToBase64(exportLegacy(st).json),
     [fmt |-> "b64", json |-> exportCompressed(st, its, totalCount).json],
     [fmt |-> "b64ws", json |-> exportLegacy(st).json],
     [fmt |-> "lz", json |-> [v |-> 3]],
     [fmt |-> "b64", json |-> [v |-> 3]],
     [fmt |-> "lz", json |-> [v |-> 2, i |-> 0, d |-> <<>>]],
     [fmt |-> "junk"]}

\* A Catalog, config.data.totalCount and the State the texts are made from;
\* the Catalog is the same when the text is read.
InitDecode ==
    /\ InitCodec
    /\ codecIn.present = codecIn.items

receiveCall ==
    /\ code = NoCode
    /\ code' \in ReceivedCodes(codecIn.state, codecIn.items, codecIn.totalCount)
    /\ UNCHANGED <<cursorVars, callVars, ghostVars, timers, search, totalSeen, codecIn, decoded, storageVars>>

NextDecode == receiveCall \/ importCall

SpecDecode == InitDecode /\ [][NextDecode]_vars

\* What the v1 stage alone makes of a text: the State of a plain base64 v1
\* envelope, null for anything else.
V1Stage(c) ==
    IF c.fmt \in {"b64", "b64ws"} /\ c.json.v = 1
    THEN [currentIndex |-> c.json.i, seen |-> c.json.s, notSeen |-> c.json.n,
          history |-> <<>>]
    ELSE Null

\* C33: importCompressed goes on to the v1 stage whenever the v2 stage does
\* not succeed and returns null only when the v1 stage fails too; a text that
\* is a valid v1 code is never rejected because of what the v2 stage made of
\* it.
C33_FallThrough ==
    decoded # NotDecoded =>
        /\ decoded = Null => V1Stage(code) = Null
        /\ V1Stage(code) # Null => decoded = V1Stage(code)

\* C33 witness: a v1 code whose JSON text starts with white space, for which
\* the decompressor yields a text, was read as the State it carries.
C33_Witness ==
    /\ code # NoCode
    /\ code.fmt = "b64ws"
    /\ decoded = V1Stage(code)
    /\ decoded.seen # {}
    /\ decoded.notSeen # {}

(* ------------------ StorageManager called through its API ------------- *)

\* The States of a session that rated the first k items of a Catalog in
\* order: what getState() hands to save.
SessionStates ==
    UNION {{[currentIndex |-> k,
             seen |-> {ItemId(p) : p \in {q \in 1..k : f[q] = "seen"}},
             notSeen |-> {ItemId(p) : p \in {q \in 1..k : f[q] = "notSeen"}},
             history |-> trimHistory([p \in 1..k |-> [id |-> ItemId(p), action |-> f[p]]])] :
               f \in [1..k -> {"seen", "notSeen"}]} :
           k \in 0..MaxSaved}

saveCall ==
    /\ \E st \in SessionStates : save(st)
    /\ replaced' = IF saveTimeout = "pending" THEN pendingState ELSE NoArg
    /\ stored' = stored
    /\ op' = "save"
    /\ UNCHANGED <<cursorVars, ret, nUpdate, nComplete, notified, ghostVars, timers, search, totalSeen, codecVars>>

saveImmediateCall ==
    /\ \E st \in SessionStates : saveImmediate(st)
    /\ replaced' = NoArg
    /\ op' = "saveImmediate(state)"
    /\ UNCHANGED <<cursorVars, ret, nUpdate, nComplete, notified, ghostVars, timers, search, totalSeen, codecVars>>

\* saveImmediate() as the beforeunload listener calls it.
saveImmediateNoArgCall ==
    /\ saveImmediate(NoArg)
    /\ replaced' = NoArg
    /\ op' = "saveImmediate()"
    /\ UNCHANGED <<cursorVars, ret, nUpdate, nComplete, notified, ghostVars, timers, search, totalSeen, codecVars>>

storageResetCall ==
    /\ storageReset
    /\ op' = "storageReset"
    /\ UNCHANGED <<cursorVars, ret, nUpdate, nComplete, notified, ghostVars, timers, search, totalSeen, codecVars>>

NextStorage ==
    \/ saveCall
    \/ saveImmediateCall
    \/ saveImmediateNoArgCall
    \/ storageResetCall
    \/ saveTimerFires

SpecStorage == Init /\ [][NextStorage]_vars

\* The event loop runs a pending debounce callback.
SpecStorageLive == SpecStorage /\ WF_vars(saveTimerFires)

\* A State with its history as the quota retry writes it.
Retried(st) == [st EXCEPT !.history = sliceLast(@, RETRY_HISTORY_SIZE)]

\* C16: when save(S1) is followed by save(S2) before the debounce timer of S1
\* has fired, S1 is never written: at most one debounce timer is pending at any
\* time, and the one that fires writes the State of the most recent save call.
C16_LastWriteWins ==
    /\ [](saveTimers <= 1)
    /\ [][op' = "saveTimer" =>
             /\ written'[1] = "ok" => stored' = arg
             /\ stored' # stored => stored' \in {arg, Retried(arg)}]_vars

\* C16 witness: the callback wrote the State of the second save call, which
\* had replaced a different pending State.
C16_Witness ==
    /\ op = "saveTimer"
    /\ written = <<"ok">>
    /\ replaced # NoArg
    /\ replaced # arg
    /\ stored = arg

StorageCalls == {"saveImmediate(state)", "saveImmediate()", "storageReset"}

\* C17: after a save(S) that no further save, saveImmediate or reset call
\* follows, the stored State eventually equals S, provided the timer fires and
\* the storage write succeeds.  (arg is S for as long as no other State is
\* given to save.)
C17_EventuallyStored ==
    (op = "save") ~>
        \/ stored = arg
        \/ op \in StorageCalls
        \/ op = "saveTimer" /\ written # <<>> /\ written # <<"ok">>

\* C17 witness: the callback wrote a State with a history longer than the
\* retry would keep, whole.
C17_Witness ==
    /\ op = "saveTimer"
    /\ written = <<"ok">>
    /\ stored = arg
    /\ Len(stored.history) > RETRY_HISTORY_SIZE

\* C18: saveImmediate(S) writes S to the store before it returns, the store
\* accepting the write, and leaves no debounce timer pending, so that no
\* debounced write requested earlier takes place after it; called without
\* argument it writes the pending State if there is one.
C18_ImmediateFlush ==
    /\ op = "saveImmediate(state)" =>
           /\ saveTimers = 0
           /\ saveTimeout = "null"
           /\ written # <<>>
           /\ written = <<"ok">> => stored = arg
    /\ op = "saveImmediate()" =>
           /\ saveTimers = 0
           /\ saveTimeout = "null"
           /\ pendingState # NoPending =>
                  /\ written # <<>>
                  /\ written = <<"ok">> => stored = pendingState
           /\ pendingState = NoPending => written = <<>>

\* C18 witness: saveImmediate(S) wrote S while another State was pending.
C18_Witness ==
    /\ op = "saveImmediate(state)"
    /\ written = <<"ok">>
    /\ pendingState # NoPending
    /\ pendingState # arg
    /\ stored = arg

(* ------------- the application: cursor, handlers and store ------------- *)

\* config.data.totalCount of the running application: it covers the Catalog.
AppTotalCount == MaxAppN

\* Codes that decode to nothing: a base64 JSON envelope of an unknown version
\* and a compressed v2 envelope whose d is empty.
InvalidCodes ==
    {[fmt |-> "b64", json |-> [v |-> 3]],
     [fmt |-> "lz", json |-> [v |-> 2, i |-> 0, d |-> <<>>]]}

\* What a user pastes into the import field, or a link carries, for a Catalog
\* of n items: codes of either generation, or something that is no code.
PastedCodes(n) ==
    {exportCompressed(st, Catalog(n), AppTotalCount) : st \in SessionStates}
        \cup {exportLegacy(st) : st \in SessionStates}
        \cup InvalidCodes

\* A link cut short: its envelope of an unknown version decodes to nothing.
CutLink == [fmt |-> "b64", json |-> [v |-> 3]]

\* Mutant: the notification is not saved.
handleUpdateNoSave ==
    /\ written' = <<>>
    /\ UNCHANGED <<pendingState, saveTimeout, saveTimers, arg>>

\* handleUpdate(data): StorageManager.save(data.state) on every notification.
handleUpdate ==
    IF nUpdate' > 0
    THEN save(getState')
    ELSE /\ written' = <<>>
         /\ UNCHANGED <<pendingState, saveTimeout, saveTimers, arg>>

\* The codes a link can carry in its p parameter: an export of either
\* generation, or a link cut short.
LinkCodes == UNION {PastedCodes(n) \ InvalidCodes : n \in 0..MaxAppN} \cup {CutLink}

\* Mutant: the p parameter is not looked at.
checkURLIgnoresParam(its) == Null

\* checkURLForProgress(): the State the p parameter decodes to, or null.
checkURLForProgress(its) ==
    IF search # NoParam
    THEN importCompressed(search, its, AppTotalCount)
    ELSE Null

\* app.js init() when checkURLForProgress() returned null: init with the State
\* load() returns; the URL is left as it is.
appStartLoad ==
    /\ onUpdate = "null"
    /\ op = "none"
    /\ \E n \in 0..MaxAppN :
           /\ checkURLForProgress(Catalog(n)) = Null
           /\ load \in LoadedStates(n)
           /\ init(n, load)
    /\ imported' = NoImport
    /\ handleUpdate
    /\ UNCHANGED <<timers, search, totalSeen, codecVars, stored, replaced>>

\* app.js init() with the State a link carries: checkURLForProgress() decodes
\* it and replaces the URL by one without the parameter, save(savedState) is
\* called and then init, whose notification saves the cursor's State over it.
appStartURL ==
    /\ onUpdate = "null"
    /\ op = "none"
    /\ \E n \in 0..MaxAppN :
           LET savedState == checkURLForProgress(Catalog(n))
           IN /\ savedState # Null
              /\ init(n, savedState)
              /\ imported' = savedState
    /\ search' = NoParam
    /\ handleUpdate
    /\ UNCHANGED <<timers, totalSeen, codecVars, stored, replaced>>

\* The callback of a swipe to the right runs.
seenTimerFires ==
    /\ onUpdate = "set"
    /\ markSeen
    /\ handleUpdate
    /\ UNCHANGED <<timers, search, totalSeen, codecVars, stored, replaced>>

\* The callback of a swipe to the left runs.
notSeenTimerFires ==
    /\ onUpdate = "set"
    /\ markNotSeen
    /\ handleUpdate
    /\ UNCHANGED <<timers, search, totalSeen, codecVars, stored, replaced>>

\* The undo button or the Z key, both inert while the button is disabled.
undoClick ==
    /\ onUpdate = "set"
    /\ Len(history) > 0
    /\ undo
    /\ handleUpdate
    /\ UNCHANGED <<timers, search, totalSeen, codecVars, stored, replaced>>

\* handleReset() once confirmed: StorageManager.reset(), SlidingWindow.reset().
handleResetStored ==
    /\ onUpdate = "set"
    /\ stored' = Absent
    /\ reset
    /\ handleUpdate
    /\ UNCHANGED <<timers, search, totalSeen, codecVars, replaced>>

\* Mutant: the decoded value is saved before it is tested.
rejectCodeSavesFirst ==
    /\ op' = "handleApplyCode"
    /\ ret' = "undefined"
    /\ nUpdate' = 0
    /\ nComplete' = 0
    /\ notified' = <<>>
    /\ save(Null)
    /\ UNCHANGED <<cursorVars, ghostVars, timers, search, totalSeen, stored, replaced>>

\* handleApplyCode() when importCompressed returned null: a toast, nothing else.
rejectCode ==
    /\ op' = "handleApplyCode"
    /\ ret' = "undefined"
    /\ nUpdate' = 0
    /\ nComplete' = 0
    /\ notified' = <<>>
    /\ written' = <<>>
    /\ UNCHANGED <<cursorVars, ghostVars, timers, search, totalSeen, storeVars, arg, replaced>>

\* handleApplyCode() with the code of the input field.
handleApplyCodePasted ==
    /\ onUpdate = "set"
    /\ \E c \in PastedCodes(Len(items)) :
           LET newState == importCompressed(c, items, AppTotalCount)
           IN IF newState = Null
              THEN rejectCode
              ELSE /\ init(Len(items), newState)
                   /\ imported' = newState
                   /\ handleUpdate
                   /\ UNCHANGED <<timers, search, totalSeen, stored, replaced>>
    /\ UNCHANGED codecVars

\* The page is left: the beforeunload listener calls saveImmediate(), then the
\* script's state is gone and the store is what remains for the next start.
pageUnload ==
    /\ onUpdate = "set"
    /\ LET finalState == pendingState
       IN IF finalState # NoPending
          THEN \E outcome \in SetItemOutcomes :
                   /\ written' = <<outcome>>
                   /\ stored' = IF outcome = "ok" THEN finalState ELSE stored
          ELSE /\ written' = <<>>
               /\ stored' = stored
    /\ items' = <<>>
    /\ currentIndex' = 0
    /\ seenSet' = {}
    /\ notSeenSet' = {}
    /\ history' = <<>>
    /\ onUpdate' = "null"
    /\ op' = "beforeunload"
    /\ ret' = "undefined"
    /\ nUpdate' = 0
    /\ nComplete' = 0
    /\ notified' = <<>>
    /\ hint' = -1
    /\ pre' = NoSnap
    /\ run' = -1
    /\ imported' = NoImport
    /\ pendingState' = NoPending
    /\ saveTimeout' = "null"
    /\ saveTimers' = 0
    /\ arg' = NoArg
    /\ UNCHANGED <<timers, search, totalSeen, codecVars, replaced>>

NextApp ==
    \/ appStartLoad
    \/ appStartURL
    \/ seenTimerFires
    \/ notSeenTimerFires
    \/ undoClick
    \/ handleResetStored
    \/ handleApplyCodePasted
    \/ saveTimerFires
    \/ pageUnload

\* The script not yet run, on the store an earlier session left.
ScriptNotRun ==
    /\ items = <<>>
    /\ currentIndex = 0
    /\ seenSet = {}
    /\ notSeenSet = {}
    /\ history = <<>>
    /\ onUpdate = "null"
    /\ op = "none"
    /\ ret = "undefined"
    /\ nUpdate = 0
    /\ nComplete = 0
    /\ notified = <<>>
    /\ hint = -1
    /\ pre = NoSnap
    /\ run = -1
    /\ imported = NoImport
    /\ timers = <<>>
    /\ totalSeen = 0
    /\ codecIn = NoInput
    /\ code = NoCode
    /\ decoded = NotDecoded
    /\ stored \in {Absent} \cup SessionStates
    /\ pendingState = NoPending
    /\ saveTimeout = "null"
    /\ saveTimers = 0
    /\ arg = NoArg
    /\ replaced = NoArg
    /\ written = <<>>

\* The page opened by its plain address or by a link whose code is whole.
InitApp ==
    /\ ScriptNotRun
    /\ search \in {NoParam} \cup (LinkCodes \ {CutLink})

SpecApp == InitApp /\ [][NextApp]_vars

(* ------------------------- the application start ----------------------- *)

\* The page opened by its plain address or by any link.
InitStart ==
    /\ ScriptNotRun
    /\ search \in {NoParam} \cup LinkCodes

\* The start of the application, the first debounced write and the page left.
NextStart ==
    \/ appStartLoad
    \/ appStartURL
    \/ saveTimerFires
    \/ pageUnload

SpecStart == InitStart /\ [][NextStart]_vars


\* C12: when a pasted code fails to decode, the import handler changes
\* neither the cursor state (seen, notSeen, pointer, history) nor the persisted
\* state or what is waiting to be persisted, and no update notification fires.
C12_RejectedCodeChangesNothing ==
    [][op' = "handleApplyCode" =>
          /\ UNCHANGED cursorVars
          /\ UNCHANGED storeVars
          /\ nUpdate' = 0]_vars

\* C12 witness: a code was rejected while the cursor held ratings, a write was
\* pending and the store held an older State.
C12_Witness ==
    /\ op = "handleApplyCode"
    /\ seenSet # {}
    /\ saveTimers = 1
    /\ stored # Absent
    /\ stored # getState

\* C19: the value under the storage key is absent or one whole snapshot that
\* save / saveImmediate was given, its history possibly cut by the quota retry:
\* every write stores the State the cursor has in memory, never a mixture of
\* two snapshots, and what waits to be written is that State too.
C19_StoreHoldsWholeSnapshots ==
    /\ [](pendingState # NoPending => pendingState \in {getState, Retried(getState)})
    /\ [][stored' # stored =>
             \/ stored' = Absent
             \/ stored' \in {getState, Retried(getState)}]_vars

\* C19 witness: the debounce callback wrote the State of a cursor holding
\* ratings of both kinds and a history longer than the retry keeps.
C19_Witness ==
    /\ op = "saveTimer"
    /\ written = <<"ok">>
    /\ stored = getState
    /\ seenSet # {}
    /\ notSeenSet # {}
    /\ Len(history) > RETRY_HISTORY_SIZE

\* C20: when the debounced write fails with a quota error, the write is
\* retried exactly once with the history cut to its most recent entries and
\* seen / notSeen / currentIndex as they were; when the retry fails too the
\* store keeps its value, and in both cases the cursor's state in memory is
\* untouched.
C20_QuotaRetry ==
    [][(op' = "saveTimer" /\ written'[1] = "quota") =>
          /\ Len(written') = 2
          /\ written'[2] = "ok" => stored' = Retried(pendingState)
          /\ written'[2] # "ok" => stored' = stored
          /\ pendingState' = Retried(pendingState)
          /\ UNCHANGED cursorVars]_vars

\* C20 witness: the retry wrote the cursor's State with a shorter history.
C20_Witness ==
    /\ op = "saveTimer"
    /\ written = <<"quota", "ok">>
    /\ stored = Retried(getState)
    /\ stored # getState
    /\ seenSet # {}

handleResetPending ==
    /\ onUpdate = "set"
    /\ stored' = Absent
    /\ reset
    /\ handleUpdate
    /\ replaced' = IF saveTimeout = "pending" THEN pendingState ELSE NoArg
    /\ UNCHANGED <<timers, search, totalSeen, codecVars>>

NextReset ==
    \/ appStartLoad
    \/ seenTimerFires
    \/ notSeenTimerFires
    \/ undoClick
    \/ handleResetPending
    \/ saveTimerFires
    \/ pageUnload

\* The page opened by its plain address.
InitReset == ScriptNotRun /\ search = NoParam

SpecReset == InitReset /\ [][NextReset]_vars

\* C38: handleReset leaves the storage key absent, and the debounce callback
\* that runs next does not bring back the State of before the reset: a write
\* scheduled before the reset does not fire afterwards, what is written is
\* the State of the save call the reset itself makes.
C38_ResetStaysRemoved ==
    [][/\ op' = "reset" =>
              /\ stored' = Absent
              /\ saveTimers' = 1
              /\ pendingState' = getState'
       /\ (op = "reset" /\ op' = "saveTimer") =>
              \/ stored' = Absent
              \/ /\ stored'.seen = {}
                 /\ stored'.notSeen = {}
                 /\ stored'.currentIndex = 0]_vars

\* C38 witness: the reset ran while the debounced write of a State with
\* ratings was pending over a stored State with ratings, and the callback
\* that ran next wrote the empty State.
C38_Witness ==
    /\ op = "saveTimer"
    /\ run = 0
    /\ replaced # NoArg
    /\ replaced.seen # {}
    /\ written = <<"ok">>
    /\ stored # Absent
    /\ stored.seen = {}
    /\ stored.notSeen = {}

(* ------------------- the application's gamification ------------------- *)

\* GamificationManager.init(seenCount, savedBestStreak): totalSeen = seenCount.
gamificationInit(seenCount) == seenCount

\* GamificationManager.recordSeen(): totalSeen++.
recordSeen == totalSeen + 1

\* GamificationManager.recordUndo(wasSeen).
recordUndo(wasSeen) ==
    IF wasSeen
    THEN (IF totalSeen - 1 > 0 THEN totalSeen - 1 ELSE 0)
    ELSE totalSeen

\* app.js init(): GamificationManager.init(savedState.seen.length, ...) and
\* SlidingWindow.init with the loaded State.
appInitGame ==
    /\ onUpdate = "null"
    /\ \E n \in 0..MaxAppN : \E st \in LoadedStates(n) :
           /\ init(n, st)
           /\ totalSeen' = gamificationInit(Cardinality(st.seen))
    /\ imported' = NoImport
    /\ UNCHANGED <<timers, search, codecVars, storageVars>>

\* The Seen button, its keys or a swipe to the right: handleSeenAction()
\* records the rating with GamificationManager at once, the cursor's markSeen
\* is deferred by 300 ms.
seenPressed ==
    /\ onUpdate = "set"
    /\ ~isComplete
    /\ Len(timers) < MaxTimers
    /\ totalSeen < MaxTotalSeen
    /\ timers' = Append(timers, [direction |-> "right", card |-> getCurrentItem.id])
    /\ totalSeen' = recordSeen
    /\ UNCHANGED <<cursorVars, callVars, ghostVars, search, codecVars, storageVars>>

\* The Skip button, its keys or a swipe to the left: recordSkip() leaves
\* totalSeen alone, the cursor's markNotSeen is deferred by 300 ms.
skipPressed ==
    /\ onUpdate = "set"
    /\ ~isComplete
    /\ Len(timers) < MaxTimers
    /\ timers' = Append(timers, [direction |-> "left", card |-> getCurrentItem.id])
    /\ UNCHANGED <<cursorVars, callVars, ghostVars, search, totalSeen, codecVars, storageVars>>

\* The undo button, enabled while canUndo: recordUndo(true), then undo().
undoButtonPressed ==
    /\ onUpdate = "set"
    /\ Len(history) > 0
    /\ undo
    /\ totalSeen' = recordUndo(TRUE)
    /\ UNCHANGED <<timers, search, codecVars, storageVars>>

\* The Z key while the undo button is enabled: undo() alone.
undoKeyPressed ==
    /\ onUpdate = "set"
    /\ Len(history) > 0
    /\ undo
    /\ UNCHANGED <<timers, search, totalSeen, codecVars, storageVars>>

\* handleReset() once confirmed: SlidingWindow.reset(), GamificationManager.init(0, 0).
handleResetGame ==
    /\ onUpdate = "set"
    /\ reset
    /\ totalSeen' = gamificationInit(0)
    /\ UNCHANGED <<timers, search, codecVars, storageVars>>

\* handleApplyCode() with a decoded State: SlidingWindow.init again, then
\* GamificationManager.init(newState.seen.length, 0).
handleApplyCodeGame ==
    /\ onUpdate = "set"
    /\ \E st \in DecodedStates(Len(items)) :
           /\ init(Len(items), st)
           /\ imported' = st
           /\ totalSeen' = gamificationInit(Cardinality(st.seen))
    /\ UNCHANGED <<timers, search, codecVars, storageVars>>

NextGame ==
    \/ appInitGame
    \/ seenPressed
    \/ skipPressed
    \/ swipeTimerFires
    \/ undoButtonPressed
    \/ undoKeyPressed
    \/ handleResetGame
    \/ handleApplyCodeGame

SpecGame == Init /\ [][NextGame]_vars

\* C39 as stated: after any sequence of UI actions (seen, skip, undo by the
\* button, undo by the Z key, import, reset), once the deferred ratings have
\* run, GamificationManager.totalSeen equals the number of ids in the cursor's
\* seen set.
C39_TotalSeenIsSeenCount ==
    (onUpdate = "set" /\ timers = <<>>) => totalSeen = Cardinality(seenSet)

\* C6: while the cursor is Complete, markSeen and markNotSeen return false,
\* leave seen, notSeen, history and the pointer unchanged and deliver no
\* notification, also when the call was scheduled before completion and runs
\* after it.
C6_MarkWhileComplete ==
    [][(timers # <<>> /\ timers' = Tail(timers) /\ isComplete) =>
          /\ op' \in Marks
          /\ ret' = "false"
          /\ UNCHANGED cursorVars
          /\ nUpdate' = 0
          /\ nComplete' = 0]_vars

\* C6 witness: a deferred rating ran after the last item of the Catalog had
\* been rated, and failed.
C6_Witness ==
    /\ op \in Marks
    /\ ret = "false"
    /\ N >= 1
    /\ currentIndex = N
    /\ Len(history) > 0

====
